---- MODULE Spec2Model ----
(***************************************************************************)
(* Model of the multisig DAO wallet program (programs/multisig-dao-wallet/ *)
(* src/lib.rs): one wallet_config account, the proposal accounts derived   *)
(* from it, and the eight instructions of the program.  The wallet_config  *)
(* accounts of other authorities appear as inputs of the two instructions  *)
(* that accept them next to a proposal of this wallet.                     *)
(*                                                                         *)
(* An instruction is modelled in two steps, exactly as the program runs    *)
(* it: the account validation generated from its #[derive(Accounts)]       *)
(* struct (the `constraint = ...` expressions, which fail with the         *)
(* framework error ConstraintRaw), and then the handler body.  Each        *)
(* handler is a pure operator from the accounts and the arguments to a     *)
(* result record {err, wallet / proposal}: the error the call returns ("Ok" *)
(* when it succeeds) and the accounts as the call leaves them.  The action *)
(* of an instruction commits the accounts of the result.                   *)
(*                                                                         *)
(* Fields that are written once and that no handler reads (description,    *)
(* instructions, bump, the wallet back-reference, created_at, the member   *)
(* role) are left out.  The vectors stay far below the capacity of their   *)
(* accounts (max_len(10)) and threshold far below the u8 range, so neither *)
(* account serialization nor u8 arithmetic can fail within the bounds.     *)
(***************************************************************************)
EXTENDS Integers, Sequences, FiniteSets

VARIABLES wallet, proposals, now

vars == <<wallet, proposals, now>>

-----------------------------------------------------------------------------
(* Bounds of the model *)

NumKeys == 3          \* identities (Pubkey values) 1..NumKeys
MaxTime == 2          \* the clock runs 0..MaxTime
MaxProposals == 2     \* add_proposal is tried while proposal_count < MaxProposals

Keys == 1 .. NumKeys

\* The wallet_config address is a PDA seeded by the authority's key, so one
\* wallet account is the wallet of one authority: the model follows the wallet
\* of this identity.
Authority == 1

NoKey == 0            \* Option<Pubkey>::None
NoTime == -1          \* Option<i64>::None

-----------------------------------------------------------------------------
(* Helpers *)

Range(s) == {s[i] : i \in 1 .. Len(s)}

\* Vec::contains
Contains(s, k) == \E i \in 1 .. Len(s) : s[i] = k

\* All vectors over S of length 0..n
SeqsUpTo(S, n) == UNION {[1 .. m -> S] : m \in 0 .. n}

-----------------------------------------------------------------------------
(* Input domains *)

\* signer vectors handed to initialize_wallet / update_signers: every strictly
\* increasing vector, plus the vectors that repeat one key twice (the program
\* performs no uniqueness check).
SignerLists ==
    {s \in SeqsUpTo(Keys, NumKeys) :
        \/ \A i \in 1 .. Len(s) - 1 : s[i] < s[i + 1]
        \/ Len(s) = 2 /\ s[1] = s[2]}

\* the runs of consecutive keys <<lo, ..., hi>>, the empty run included
RunLists == {[i \in 1 .. n |-> lo + i - 1] : lo \in Keys, n \in 0 .. NumKeys} \cap SignerLists

\* every identity, in order
AllKeys == [i \in 1 .. NumKeys |-> i]

Thresholds == 0 .. NumKeys + 1           \* u8 argument
Timeouts == {-1, 0, 1}                   \* i64 proposal_timeout
Limits == {0, 1}                         \* u64 spending_limit
Periods == {-1, 1}                       \* i64 spending_period
Categories == {"Regular", "Admin", "Emergency"}
Expirations == 1 .. MaxTime              \* i64 expiration
Statuses == {"Pending", "Approved", "Rejected", "Executed", "Expired"}

MultisigError ==
    {"InvalidThreshold", "InvalidTimeout", "InvalidSpendingLimit",
     "InvalidExpiration", "WalletInactive", "ProposalNotPending",
     "ProposalNotApproved", "ProposalExpired", "NotAuthorized",
     "AlreadyApproved", "MemberNotFound"}

\* anchor_lang::error::ErrorCode::ConstraintRaw, raised by a failing
\* `constraint = <expr>` that names no custom error
ConstraintRaw == "ConstraintRaw"

\* SystemError::AccountAlreadyInUse, raised by the account creation of an
\* `init` account whose address already holds an account
AccountAlreadyInUse == "AccountAlreadyInUse"

-----------------------------------------------------------------------------
(* Account types *)

\* A wallet_config account that has not been created yet.
NoWallet ==
    [initialized |-> FALSE, authority |-> NoKey, signers |-> <<>>,
     threshold |-> 0, proposal_timeout |-> 0, spending_limit |-> 0,
     spending_period |-> 0, spending_used |-> 0, last_spending_reset |-> 0,
     is_active |-> FALSE, members |-> <<>>, proposal_count |-> 0]

\* A proposal account that has not been created yet.
NoProposal ==
    [exists |-> FALSE, proposer |-> NoKey, category |-> "Regular",
     expiration |-> 0, status |-> "Pending", approvals |-> <<>>,
     rejections |-> <<>>, executed_at |-> NoTime, id |-> 0]

Member(signer) == [address |-> signer, delegate |-> NoKey, is_active |-> TRUE]

-----------------------------------------------------------------------------
(* Handlers *)

\* Mutant: the check proposal_timeout > 0 is missing.
initialize_wallet_any_timeout(w, authority, signers, threshold, proposal_timeout, spending_limit, spending_period, current_time) ==
    IF ~(Len(signers) >= threshold) THEN [err |-> "InvalidThreshold", wallet |-> w]
    ELSE IF ~(threshold > 0) THEN [err |-> "InvalidThreshold", wallet |-> w]
    ELSE IF ~(spending_limit > 0) THEN [err |-> "InvalidSpendingLimit", wallet |-> w]
    ELSE [err |-> "Ok",
          wallet |->
            [initialized |-> TRUE, authority |-> authority, signers |-> signers,
             threshold |-> threshold, proposal_timeout |-> proposal_timeout,
             spending_limit |-> spending_limit, spending_period |-> spending_period,
             spending_used |-> 0, last_spending_reset |-> current_time,
             is_active |-> TRUE,
             members |-> [i \in 1 .. Len(signers) |->
                            [address |-> signers[i], delegate |-> 0, is_active |-> TRUE]],
             proposal_count |-> 0]]

initialize_wallet(w, authority, signers, threshold, proposal_timeout, spending_limit, spending_period, current_time) ==
    IF ~(Len(signers) >= threshold) THEN [err |-> "InvalidThreshold", wallet |-> w]
    ELSE IF ~(threshold > 0) THEN [err |-> "InvalidThreshold", wallet |-> w]
    ELSE IF ~(proposal_timeout > 0) THEN [err |-> "InvalidTimeout", wallet |-> w]
    ELSE IF ~(spending_limit > 0) THEN [err |-> "InvalidSpendingLimit", wallet |-> w]
    ELSE [err |-> "Ok",
          wallet |->
            [initialized |-> TRUE,
             authority |-> authority,
             signers |-> signers,
             threshold |-> threshold,
             proposal_timeout |-> proposal_timeout,
             spending_limit |-> spending_limit,
             spending_period |-> spending_period,
             spending_used |-> 0,
             last_spending_reset |-> current_time,
             is_active |-> TRUE,
             members |-> [i \in 1 .. Len(signers) |-> Member(signers[i])],
             proposal_count |-> 0]]

\* Mutant: the increment of proposal_count is missing.
add_proposal_no_increment(w, p, proposer, category, expiration, current_time) ==
    IF ~w.is_active THEN [err |-> "WalletInactive", wallet |-> w, proposal |-> p]
    ELSE IF ~(expiration > current_time)
        THEN [err |-> "InvalidExpiration", wallet |-> w, proposal |-> p]
    ELSE [err |-> "Ok",
          proposal |->
            [exists |-> TRUE, proposer |-> proposer, category |-> category,
             expiration |-> expiration, status |-> "Pending", approvals |-> <<>>,
             rejections |-> <<>>, executed_at |-> NoTime, id |-> w.proposal_count],
          wallet |-> w]

\* Mutant: the new proposal is evaluated against the required count at once.
add_proposal_evaluated(w, p, proposer, category, expiration, current_time) ==
    IF ~w.is_active THEN [err |-> "WalletInactive", wallet |-> w, proposal |-> p]
    ELSE IF ~(expiration > current_time)
        THEN [err |-> "InvalidExpiration", wallet |-> w, proposal |-> p]
    ELSE [err |-> "Ok",
          proposal |->
            [exists |-> TRUE, proposer |-> proposer, category |-> category,
             expiration |-> expiration,
             status |-> IF category = "Emergency" /\ 0 >= w.threshold - 1
                        THEN "Approved" ELSE "Pending",
             approvals |-> <<>>,
             rejections |-> <<>>, executed_at |-> NoTime, id |-> w.proposal_count],
          wallet |-> [w EXCEPT !.proposal_count = @ + 1]]

add_proposal(w, p, proposer, category, expiration, current_time) ==
    IF ~w.is_active THEN [err |-> "WalletInactive", wallet |-> w, proposal |-> p]
    ELSE IF ~(expiration > current_time)
        THEN [err |-> "InvalidExpiration", wallet |-> w, proposal |-> p]
    ELSE [err |-> "Ok",
          proposal |->
            [exists |-> TRUE,
             proposer |-> proposer,
             category |-> category,
             expiration |-> expiration,
             status |-> "Pending",
             approvals |-> <<>>,
             rejections |-> <<>>,
             executed_at |-> NoTime,
             id |-> w.proposal_count],
          wallet |-> [w EXCEPT !.proposal_count = @ + 1]]

\* match proposal.category { ... }; threshold is a u8 with
\* 1 <= threshold <= |signers|, so neither + 1 nor - 1 leaves the u8 range
required_threshold(category, threshold) ==
    CASE category = "Regular" -> threshold
      [] category = "Admin" -> threshold + 1
      [] category = "Emergency" -> threshold - 1

\* Mutant: the check for an earlier approval by the same signer is missing.
approve_proposal_twice(w, p, approver, current_time) ==
    IF ~w.is_active THEN [err |-> "WalletInactive", proposal |-> p]
    ELSE IF ~(p.status = "Pending") THEN [err |-> "ProposalNotPending", proposal |-> p]
    ELSE IF ~(p.expiration > current_time) THEN [err |-> "ProposalExpired", proposal |-> p]
    ELSE IF ~Contains(w.signers, approver) THEN [err |-> "NotAuthorized", proposal |-> p]
    ELSE LET pushed == Append(p.approvals, approver) IN
         [err |-> "Ok",
          proposal |->
            IF Len(pushed) >= required_threshold(p.category, w.threshold)
            THEN [p EXCEPT !.approvals = pushed, !.status = "Approved"]
            ELSE [p EXCEPT !.approvals = pushed]]

\* Mutant: a call that finds the proposal expired marks it Expired.
approve_proposal_expires(w, p, approver, current_time) ==
    IF ~w.is_active THEN [err |-> "WalletInactive", proposal |-> p]
    ELSE IF ~(p.status = "Pending") THEN [err |-> "ProposalNotPending", proposal |-> p]
    ELSE IF ~(p.expiration > current_time)
        THEN [err |-> "ProposalExpired", proposal |-> [p EXCEPT !.status = "Expired"]]
    ELSE IF ~Contains(w.signers, approver) THEN [err |-> "NotAuthorized", proposal |-> p]
    ELSE IF Contains(p.approvals, approver) THEN [err |-> "AlreadyApproved", proposal |-> p]
    ELSE LET pushed == Append(p.approvals, approver) IN
         [err |-> "Ok",
          proposal |->
            IF Len(pushed) >= required_threshold(p.category, w.threshold)
            THEN [p EXCEPT !.approvals = pushed, !.status = "Approved"]
            ELSE [p EXCEPT !.approvals = pushed]]

approve_proposal(w, p, approver, current_time) ==
    IF ~w.is_active THEN [err |-> "WalletInactive", proposal |-> p]
    ELSE IF ~(p.status = "Pending") THEN [err |-> "ProposalNotPending", proposal |-> p]
    ELSE IF ~(p.expiration > current_time) THEN [err |-> "ProposalExpired", proposal |-> p]
    ELSE IF ~Contains(w.signers, approver) THEN [err |-> "NotAuthorized", proposal |-> p]
    ELSE IF Contains(p.approvals, approver) THEN [err |-> "AlreadyApproved", proposal |-> p]
    ELSE LET pushed == Append(p.approvals, approver) IN
         [err |-> "Ok",
          proposal |->
            IF Len(pushed) >= required_threshold(p.category, w.threshold)
            THEN [p EXCEPT !.approvals = pushed, !.status = "Approved"]
            ELSE [p EXCEPT !.approvals = pushed]]

\* Mutant: the expiration check is missing.
execute_proposal_late(w, p, current_time) ==
    IF ~w.is_active THEN [err |-> "WalletInactive", proposal |-> p]
    ELSE IF ~(p.status = "Approved") THEN [err |-> "ProposalNotApproved", proposal |-> p]
    ELSE [err |-> "Ok",
          proposal |-> [p EXCEPT !.status = "Executed", !.executed_at = current_time]]

\* Mutant: the executed proposal is put back to Pending.
execute_proposal_reopens(w, p, current_time) ==
    IF ~w.is_active THEN [err |-> "WalletInactive", proposal |-> p]
    ELSE IF ~(p.status = "Approved") THEN [err |-> "ProposalNotApproved", proposal |-> p]
    ELSE IF ~(p.expiration > current_time) THEN [err |-> "ProposalExpired", proposal |-> p]
    ELSE [err |-> "Ok",
          proposal |-> [p EXCEPT !.status = "Pending", !.executed_at = current_time]]

execute_proposal(w, p, current_time) ==
    IF ~w.is_active THEN [err |-> "WalletInactive", proposal |-> p]
    ELSE IF ~(p.status = "Approved") THEN [err |-> "ProposalNotApproved", proposal |-> p]
    ELSE IF ~(p.expiration > current_time) THEN [err |-> "ProposalExpired", proposal |-> p]
    ELSE [err |-> "Ok",
          proposal |-> [p EXCEPT !.status = "Executed", !.executed_at = current_time]]

\* Mutant: any current signer may change the signers (the authority check is missing).
update_signers_any_signer(w, approver, new_signers, new_threshold) ==
    IF ~w.is_active THEN [err |-> "WalletInactive", wallet |-> w]
    ELSE IF ~(Len(new_signers) >= new_threshold) THEN [err |-> "InvalidThreshold", wallet |-> w]
    ELSE IF ~(new_threshold > 0) THEN [err |-> "InvalidThreshold", wallet |-> w]
    ELSE IF ~Contains(w.signers, approver) THEN [err |-> "NotAuthorized", wallet |-> w]
    ELSE [err |-> "Ok",
          wallet |-> [w EXCEPT !.signers = new_signers, !.threshold = new_threshold]]

\* Mutant: the check new_threshold > 0 is missing.
update_signers_zero(w, approver, new_signers, new_threshold) ==
    IF ~w.is_active THEN [err |-> "WalletInactive", wallet |-> w]
    ELSE IF ~(Len(new_signers) >= new_threshold) THEN [err |-> "InvalidThreshold", wallet |-> w]
    ELSE IF ~Contains(w.signers, approver) THEN [err |-> "NotAuthorized", wallet |-> w]
    ELSE IF ~(w.authority = approver) THEN [err |-> "NotAuthorized", wallet |-> w]
    ELSE [err |-> "Ok",
          wallet |-> [w EXCEPT !.signers = new_signers, !.threshold = new_threshold]]

\* Mutant: the members are rebuilt from the new signers.
update_signers_resync(w, approver, new_signers, new_threshold) ==
    IF ~w.is_active THEN [err |-> "WalletInactive", wallet |-> w]
    ELSE IF ~(Len(new_signers) >= new_threshold) THEN [err |-> "InvalidThreshold", wallet |-> w]
    ELSE IF ~(new_threshold > 0) THEN [err |-> "InvalidThreshold", wallet |-> w]
    ELSE IF ~Contains(w.signers, approver) THEN [err |-> "NotAuthorized", wallet |-> w]
    ELSE IF ~(w.authority = approver) THEN [err |-> "NotAuthorized", wallet |-> w]
    ELSE [err |-> "Ok",
          wallet |-> [w EXCEPT !.signers = new_signers, !.threshold = new_threshold,
                         !.members = [i \in 1 .. Len(new_signers) |->
                            [address |-> new_signers[i], delegate |-> 0, is_active |-> TRUE]]]]

\* Mutant: the check that the approver is a current signer is missing.
update_signers_unlisted(w, approver, new_signers, new_threshold) ==
    IF ~w.is_active THEN [err |-> "WalletInactive", wallet |-> w]
    ELSE IF ~(Len(new_signers) >= new_threshold) THEN [err |-> "InvalidThreshold", wallet |-> w]
    ELSE IF ~(new_threshold > 0) THEN [err |-> "InvalidThreshold", wallet |-> w]
    ELSE IF ~(w.authority = approver) THEN [err |-> "NotAuthorized", wallet |-> w]
    ELSE [err |-> "Ok",
          wallet |-> [w EXCEPT !.signers = new_signers, !.threshold = new_threshold]]

update_signers(w, approver, new_signers, new_threshold) ==
    IF ~w.is_active THEN [err |-> "WalletInactive", wallet |-> w]
    ELSE IF ~(Len(new_signers) >= new_threshold) THEN [err |-> "InvalidThreshold", wallet |-> w]
    ELSE IF ~(new_threshold > 0) THEN [err |-> "InvalidThreshold", wallet |-> w]
    ELSE IF ~Contains(w.signers, approver) THEN [err |-> "NotAuthorized", wallet |-> w]
    ELSE IF ~(w.authority = approver) THEN [err |-> "NotAuthorized", wallet |-> w]
    ELSE [err |-> "Ok",
          wallet |-> [w EXCEPT !.signers = new_signers, !.threshold = new_threshold]]

\* Mutant: the authority check is missing.
set_spending_limits_open(w, approver, new_limit, new_period, current_time) ==
    IF ~w.is_active THEN [err |-> "WalletInactive", wallet |-> w]
    ELSE [err |-> "Ok",
          wallet |-> [w EXCEPT !.spending_limit = new_limit,
                               !.spending_period = new_period,
                               !.spending_used = 0,
                               !.last_spending_reset = current_time]]

set_spending_limits(w, approver, new_limit, new_period, current_time) ==
    IF ~w.is_active THEN [err |-> "WalletInactive", wallet |-> w]
    ELSE IF ~(w.authority = approver) THEN [err |-> "NotAuthorized", wallet |-> w]
    ELSE [err |-> "Ok",
          wallet |-> [w EXCEPT !.spending_limit = new_limit,
                               !.spending_period = new_period,
                               !.spending_used = 0,
                               !.last_spending_reset = current_time]]

\* for member in &mut wallet_config.members { if member.address == delegator ... }
\* : the first member with the delegator's address, 0 when there is none
FirstMember(members, delegator) ==
    IF \E i \in 1 .. Len(members) : members[i].address = delegator
    THEN CHOOSE i \in 1 .. Len(members) :
            /\ members[i].address = delegator
            /\ \A j \in 1 .. i - 1 : members[j].address # delegator
    ELSE 0

delegate_vote(w, delegator, delegate) ==
    IF ~w.is_active THEN [err |-> "WalletInactive", wallet |-> w]
    ELSE IF ~Contains(w.signers, delegator) THEN [err |-> "NotAuthorized", wallet |-> w]
    ELSE LET i == FirstMember(w.members, delegator) IN
         IF i # 0
         THEN [err |-> "Ok", wallet |-> [w EXCEPT !.members[i].delegate = delegate]]
         ELSE [err |-> "MemberNotFound", wallet |-> w]

emergency_override(w, emergency_authority) ==
    IF ~w.is_active THEN [err |-> "WalletInactive", wallet |-> w]
    ELSE IF ~(w.authority = emergency_authority) THEN [err |-> "NotAuthorized", wallet |-> w]
    ELSE [err |-> "Ok", wallet |-> w]

-----------------------------------------------------------------------------
(* Account validation (#[derive(Accounts)]) and instruction entry points *)

\* constraint = wallet_config.is_active
WalletConstraint(w) == w.is_active

\* ApproveProposal: constraint = proposal.status == ProposalStatus::Pending
ApproveProposalConstraint(w, p) == WalletConstraint(w) /\ p.status = "Pending"

\* ExecuteProposal: constraint = proposal.status == ProposalStatus::Approved
ExecuteProposalConstraint(w, p) == WalletConstraint(w) /\ p.status = "Approved"

\* The instruction as the program runs it: account validation, then the handler.
\* InitializeWallet: `init` of wallet_config, the PDA of the authority.
initialize_wallet_ix(w, authority, signers, threshold, proposal_timeout, spending_limit, spending_period, current_time) ==
    IF w.initialized THEN [err |-> AccountAlreadyInUse, wallet |-> w]
    ELSE initialize_wallet(w, authority, signers, threshold, proposal_timeout,
                           spending_limit, spending_period, current_time)

\* AddProposal: `init` of proposal, the PDA of (wallet_config, proposer), p being
\* the account at that address.  (Which of the two validations comes first is
\* never observed: an existing wallet is always active.)
add_proposal_ix(w, p, proposer, category, expiration, current_time) ==
    IF p.exists THEN [err |-> AccountAlreadyInUse, wallet |-> w, proposal |-> p]
    ELSE IF ~WalletConstraint(w) THEN [err |-> ConstraintRaw, wallet |-> w, proposal |-> p]
    ELSE add_proposal(w, p, proposer, category, expiration, current_time)

approve_proposal_ix(w, p, approver, current_time) ==
    IF ~ApproveProposalConstraint(w, p) THEN [err |-> ConstraintRaw, proposal |-> p]
    ELSE approve_proposal(w, p, approver, current_time)

execute_proposal_ix(w, p, current_time) ==
    IF ~ExecuteProposalConstraint(w, p) THEN [err |-> ConstraintRaw, proposal |-> p]
    ELSE execute_proposal(w, p, current_time)

update_signers_ix(w, approver, new_signers, new_threshold) ==
    IF ~WalletConstraint(w) THEN [err |-> ConstraintRaw, wallet |-> w]
    ELSE update_signers(w, approver, new_signers, new_threshold)

set_spending_limits_ix(w, approver, new_limit, new_period, current_time) ==
    IF ~WalletConstraint(w) THEN [err |-> ConstraintRaw, wallet |-> w]
    ELSE set_spending_limits(w, approver, new_limit, new_period, current_time)

delegate_vote_ix(w, delegator, delegate) ==
    IF ~WalletConstraint(w) THEN [err |-> ConstraintRaw, wallet |-> w]
    ELSE delegate_vote(w, delegator, delegate)

emergency_override_ix(w, emergency_authority) ==
    IF ~WalletConstraint(w) THEN [err |-> ConstraintRaw, wallet |-> w]
    ELSE emergency_override(w, emergency_authority)

\* every identity in order, the last one repeated up to length n: a signer
\* vector longer than the number of identities (the program performs no
\* uniqueness check), which admits a threshold above that number
PaddedKeys(n) == [i \in 1 .. n |-> IF i <= NumKeys THEN i ELSE NumKeys]

\* The wallet_config accounts of the other authorities: every identity but
\* Authority can create its own wallet with any signer vector and any
\* threshold that initialize_wallet accepts (and move it to any other with
\* update_signers).  Those calls need nothing from, and change nothing in, the
\* wallet and the proposals followed here, so each such account can be in the
\* store at any time.  Of a wallet_config they are given, approve_proposal and
\* execute_proposal read is_active, signers and threshold only; the padded
\* vectors bring every threshold whose required count exceeds the approvals a
\* proposal can collect.
OtherWallets ==
    {r.wallet : r \in
        {rr \in {initialize_wallet_ix(NoWallet, authority, signers, threshold, 1, 1, 1, 0) :
                    authority \in Keys \ {Authority},
                    signers \in SignerLists \cup {PaddedKeys(NumKeys + 1), PaddedKeys(NumKeys + 2)},
                    threshold \in 0 .. NumKeys + 2} : rr.err = "Ok"}}

-----------------------------------------------------------------------------
(* Instructions.  D is the record of input domains the arguments and the   *)
(* signing identities are drawn from.                                      *)

Init ==
    /\ wallet = NoWallet
    /\ proposals = [k \in Keys |-> NoProposal]
    /\ now = 0

\* A call on an existing wallet_config account fails in `init` and changes
\* nothing (initialize_wallet_ix): only the calls on the missing account are
\* steps.
InitializeWallet(D) ==
    /\ ~wallet.initialized
    /\ \E signers \in D.lists, threshold \in D.thresholds,
          proposal_timeout \in D.timeouts, spending_limit \in D.limits,
          spending_period \in D.periods :
        wallet' = initialize_wallet_ix(wallet, Authority, signers, threshold,
                      proposal_timeout, spending_limit, spending_period, now).wallet
    /\ UNCHANGED <<proposals, now>>

\* The proposal account is the one at the PDA of (wallet, proposer); a call
\* for a proposer whose proposal account exists fails in `init` and changes
\* nothing.
AddProposal(D) ==
    /\ wallet.initialized
    /\ wallet.proposal_count < MaxProposals
    /\ \E proposer \in D.proposers, category \in D.categories,
          expiration \in D.expirations :
        LET r == add_proposal_ix(wallet, proposals[proposer], proposer,
                                 category, expiration, now) IN
        /\ wallet' = r.wallet
        /\ proposals' = [proposals EXCEPT ![proposer] = r.proposal]
    /\ UNCHANGED now

\* The accounts struct takes any wallet_config account of the program next to
\* any proposal account: proposal.wallet is never compared with the key of
\* wallet_config.  The call reads the signers and the threshold of the
\* wallet_config it is given: the proposal's own wallet or another one.
ApproveProposal(D) ==
    /\ wallet.initialized
    /\ \E p \in Keys, approver \in D.callers :
        /\ proposals[p].exists
        /\ \E r \in {approve_proposal_ix(wallet_config, proposals[p], approver, now) :
                        wallet_config \in {wallet} \cup D.wallets} :
                proposals' = [proposals EXCEPT ![p] = r.proposal]
    /\ UNCHANGED <<wallet, now>>

\* The executor signs but is never read; the wallet_config is, as for
\* approve_proposal, any wallet_config account of the program.
ExecuteProposal(D) ==
    /\ wallet.initialized
    /\ \E p \in Keys :
        /\ proposals[p].exists
        /\ \E r \in {execute_proposal_ix(wallet_config, proposals[p], now) :
                        wallet_config \in {wallet} \cup D.wallets} :
                proposals' = [proposals EXCEPT ![p] = r.proposal]
    /\ UNCHANGED <<wallet, now>>

UpdateSigners(D) ==
    /\ wallet.initialized
    /\ \E approver \in D.updaters, new_signers \in D.newlists,
          new_threshold \in D.thresholds :
        wallet' = update_signers_ix(wallet, approver, new_signers, new_threshold).wallet
    /\ UNCHANGED <<proposals, now>>

SetSpendingLimits(D) ==
    /\ wallet.initialized
    /\ \E approver \in D.callers, new_limit \in D.limits, new_period \in D.periods :
        wallet' = set_spending_limits_ix(wallet, approver, new_limit, new_period, now).wallet
    /\ UNCHANGED <<proposals, now>>

DelegateVote(D) ==
    /\ wallet.initialized
    /\ \E delegator \in D.delegators, delegate \in D.delegates :
        wallet' = delegate_vote_ix(wallet, delegator, delegate).wallet
    /\ UNCHANGED <<proposals, now>>

EmergencyOverride(D) ==
    /\ wallet.initialized
    /\ \E emergency_authority \in D.callers :
        wallet' = emergency_override_ix(wallet, emergency_authority).wallet
    /\ UNCHANGED <<proposals, now>>

\* Clock::get()?.unix_timestamp advances between instructions.  Time 0 is the
\* moment the wallet is created.
Tick ==
    /\ wallet.initialized
    /\ now < MaxTime
    /\ now' = now + 1
    /\ UNCHANGED <<wallet, proposals>>

-----------------------------------------------------------------------------
(* Specifications.  The instructions fall into two groups that share only   *)
(* signers and threshold: the proposal life cycle (add / approve / execute, *)
(* which read signers and threshold) and the configuration instructions     *)
(* (spending limits, delegation, override, which write fields that no       *)
(* proposal instruction reads).  Exploring the full product of both groups  *)
(* over the full input domains is out of reach, so each specification       *)
(* explores one group over its full domains.                                *)

\* Spec: the life cycle of a proposal account under changing signers and
\* thresholds.  The wallet is created with every identity as a signer and any
\* threshold; update_signers then moves it to every run of consecutive keys
\* (with and without the authority, with and without the proposer) and every
\* threshold.  Arguments that initialize_wallet rejects are left to SpecConfig.
VoteDomain ==
    [lists |-> {AllKeys}, newlists |-> RunLists,
     thresholds |-> 1 .. NumKeys, timeouts |-> {1}, limits |-> {1}, periods |-> {1},
     proposers |-> {NumKeys}, categories |-> Categories, expirations |-> Expirations,
     callers |-> Keys, updaters |-> {Authority, NumKeys},
     delegators |-> {}, delegates |-> {}, wallets |-> OtherWallets]

Next ==
    \/ InitializeWallet(VoteDomain)
    \/ AddProposal(VoteDomain)
    \/ ApproveProposal(VoteDomain)
    \/ ExecuteProposal(VoteDomain)
    \/ UpdateSigners(VoteDomain)
    \/ Tick

Spec == Init /\ [][Next]_vars

\* SpecConfig: the configuration instructions over every argument, at the
\* time the wallet is created.  Delegation is tried by the last identity, which
\* is a member for some signer vectors and a signer without a member record
\* after some updates.
ConfigDomain ==
    [lists |-> SignerLists, newlists |-> SignerLists,
     thresholds |-> Thresholds, timeouts |-> Timeouts, limits |-> Limits,
     periods |-> Periods,
     proposers |-> {}, categories |-> {}, expirations |-> {},
     callers |-> Keys, updaters |-> Keys,
     delegators |-> {NumKeys}, delegates |-> {Authority}, wallets |-> {}]

NextConfig ==
    \/ InitializeWallet(ConfigDomain)
    \/ UpdateSigners(ConfigDomain)
    \/ SetSpendingLimits(ConfigDomain)
    \/ DelegateVote(ConfigDomain)
    \/ EmergencyOverride(ConfigDomain)

SpecConfig == Init /\ [][NextConfig]_vars

\* every identity but the last, in order
FrontKeys == [i \in 1 .. NumKeys - 1 |-> i]

\* SpecAll: all eight instructions together, on a wallet of threshold 1.  The
\* wallet is created with every identity but the last as a signer; the
\* authority delegates to the last identity, which is no signer until an
\* update_signers makes it one.  Proposals are added by the authority and by
\* the last identity, so that two proposal accounts share the wallet's counter.
AllDomain ==
    [lists |-> {FrontKeys}, newlists |-> {AllKeys},
     thresholds |-> {1}, timeouts |-> {1}, limits |-> {1}, periods |-> {1},
     proposers |-> {Authority, NumKeys}, categories |-> {"Regular"},
     expirations |-> {1, MaxTime},
     callers |-> {Authority, NumKeys}, updaters |-> {Authority},
     delegators |-> {Authority}, delegates |-> {NumKeys}, wallets |-> OtherWallets]

NextAll ==
    \/ InitializeWallet(AllDomain)
    \/ AddProposal(AllDomain)
    \/ ApproveProposal(AllDomain)
    \/ ExecuteProposal(AllDomain)
    \/ UpdateSigners(AllDomain)
    \/ SetSpendingLimits(AllDomain)
    \/ DelegateVote(AllDomain)
    \/ EmergencyOverride(AllDomain)
    \/ Tick

SpecAll == Init /\ [][NextAll]_vars

-----------------------------------------------------------------------------
(* Properties *)

Live == {k \in Keys : proposals[k].exists}

\* the wallet_config accounts that approve_proposal and execute_proposal can
\* be given: the proposal's wallet or the wallet of any other authority.  No
\* instruction ever clears is_active, so every one of them is active.
WalletConfigs == {wallet} \cup OtherWallets

\* C1: a proposal is created Pending; its status only ever moves Pending ->
\* Approved / Rejected / Expired or Approved -> Executed; Executed, Rejected
\* and Expired are final, and a proposal account is never removed.
C1_Moves ==
    {<<"Pending", "Approved">>, <<"Pending", "Rejected">>,
     <<"Pending", "Expired">>, <<"Approved", "Executed">>}

C1_StatusMachine ==
    [][\A k \in Keys :
        /\ (~proposals[k].exists /\ proposals'[k].exists)
              => proposals'[k].status = "Pending"
        /\ proposals[k].exists
              => /\ proposals'[k].exists
                 /\ \/ proposals'[k].status = proposals[k].status
                    \/ <<proposals[k].status, proposals'[k].status>> \in C1_Moves]_vars

\* a proposal that went Pending -> Approved -> Executed
C1_Witness ==
    \E k \in Live : proposals[k].status = "Executed" /\ proposals[k].executed_at # NoTime

\* C2: a successful approve_proposal (one approval appended) leaves the
\* proposal Approved iff the number of approvals after the append is at least
\* threshold (Regular), threshold + 1 (Admin), threshold - 1 (Emergency), with
\* the wallet's threshold at that moment; otherwise it stays Pending.
C2_Required(category, threshold) ==
    IF category = "Admin" THEN threshold + 1
    ELSE IF category = "Emergency" THEN threshold - 1
    ELSE threshold

C2_ApprovedExactlyAtRequired ==
    [][\A k \in Keys :
        (proposals[k].exists
           /\ Len(proposals'[k].approvals) = Len(proposals[k].approvals) + 1)
        => /\ proposals[k].status = "Pending"
           /\ proposals'[k].status =
                IF Len(proposals'[k].approvals)
                      >= C2_Required(proposals[k].category, wallet.threshold)
                THEN "Approved" ELSE "Pending"]_vars

\* C3: once the wallet exists 1 <= threshold <= |signers| (the length of the
\* stored vector), also after every update_signers; an update_signers with
\* new_threshold = 0 or new_threshold > |new_signers| fails with
\* InvalidThreshold and leaves signers and threshold as they were.
C3_ThresholdInRange ==
    wallet.initialized =>
        /\ 1 <= wallet.threshold
        /\ wallet.threshold <= Len(wallet.signers)
        /\ \A approver \in Keys, new_signers \in SignerLists, new_threshold \in Thresholds :
            (new_threshold = 0 \/ new_threshold > Len(new_signers)) =>
                LET r == update_signers_ix(wallet, approver, new_signers, new_threshold) IN
                /\ r.err = "InvalidThreshold"
                /\ r.wallet.signers = wallet.signers
                /\ r.wallet.threshold = wallet.threshold

\* the signer vector is no longer the one the members were created from: an
\* update_signers has succeeded
C3_Witness ==
    /\ wallet.initialized
    /\ wallet.signers # [i \in 1 .. Len(wallet.members) |-> wallet.members[i].address]
    /\ wallet.threshold = Len(wallet.signers)

SignerAddresses(members) == [i \in 1 .. Len(members) |-> members[i].address]

ArgsInvalid(new_signers, new_threshold) ==
    new_threshold = 0 \/ new_threshold > Len(new_signers)

\* C4 as stated: update_signers, set_spending_limits and emergency_override
\* succeed only for the authority, any other caller gets NotAuthorized with the
\* wallet unchanged, and the authority never changes.
C4_Original ==
    wallet.initialized =>
        /\ wallet.authority = Authority
        /\ \A caller \in Keys \ {wallet.authority} :
            /\ \A new_signers \in SignerLists, new_threshold \in Thresholds :
                LET r == update_signers_ix(wallet, caller, new_signers, new_threshold) IN
                r.err = "NotAuthorized" /\ r.wallet = wallet
            /\ \A new_limit \in Limits, new_period \in Periods :
                LET r == set_spending_limits_ix(wallet, caller, new_limit, new_period, now) IN
                r.err = "NotAuthorized" /\ r.wallet = wallet
            /\ LET r == emergency_override_ix(wallet, caller) IN
                r.err = "NotAuthorized" /\ r.wallet = wallet

\* C4 (amended): the three instructions succeed only for the authority; any
\* other caller gets an error and the wallet is unchanged: NotAuthorized from
\* set_spending_limits and emergency_override, and from update_signers
\* NotAuthorized unless new_threshold is 0 or exceeds |new_signers|, which
\* gives InvalidThreshold; no instruction changes the authority set at
\* initialize_wallet.
C4_AuthorityOnly ==
    wallet.initialized =>
        /\ wallet.authority = Authority
        /\ \A caller \in Keys :
            /\ \A new_signers \in SignerLists, new_threshold \in Thresholds :
                LET r == update_signers_ix(wallet, caller, new_signers, new_threshold) IN
                /\ r.wallet.authority = wallet.authority
                /\ r.err = "Ok" => caller = wallet.authority
                /\ caller # wallet.authority =>
                    /\ r.wallet = wallet
                    /\ r.err = IF ArgsInvalid(new_signers, new_threshold)
                               THEN "InvalidThreshold" ELSE "NotAuthorized"
            /\ \A new_limit \in Limits, new_period \in Periods :
                LET r == set_spending_limits_ix(wallet, caller, new_limit, new_period, now) IN
                /\ r.wallet.authority = wallet.authority
                /\ r.err = "Ok" <=> caller = wallet.authority
                /\ caller # wallet.authority => r.err = "NotAuthorized" /\ r.wallet = wallet
            /\ LET r == emergency_override_ix(wallet, caller) IN
                /\ r.wallet.authority = wallet.authority
                /\ r.err = "Ok" <=> caller = wallet.authority
                /\ caller # wallet.authority => r.err = "NotAuthorized" /\ r.wallet = wallet
            /\ \A delegate \in Keys :
                delegate_vote_ix(wallet, caller, delegate).wallet.authority = wallet.authority

\* the authority has changed the spending limits (to a limit initialize_wallet
\* would reject) and the signers, and is still the authority
C4_Witness ==
    /\ wallet.initialized
    /\ wallet.authority = Authority
    /\ wallet.spending_limit = 0
    /\ wallet.signers # SignerAddresses(wallet.members)

\* C5 as stated: approve_proposal by a signer already in approvals fails with
\* AlreadyApproved, whatever happened in between, and changes nothing.
C5_Original ==
    \A k \in Live : \A i \in 1 .. Len(proposals[k].approvals) :
        LET r == approve_proposal_ix(wallet, proposals[k], proposals[k].approvals[i], now) IN
        r.err = "AlreadyApproved" /\ r.proposal = proposals[k]

\* C5 (amended): approve_proposal by an identity S already in approvals always
\* fails and leaves approvals and status unchanged, whichever wallet_config
\* account the call is given; the error is AlreadyApproved exactly when the
\* proposal is still Pending and not expired and S is a signer of that
\* wallet_config; otherwise an earlier check decides the error.
C5_SecondApprovalFails ==
    \A k \in Live, wallet_config \in WalletConfigs :
        \A i \in 1 .. Len(proposals[k].approvals) :
            LET S == proposals[k].approvals[i]
                r == approve_proposal_ix(wallet_config, proposals[k], S, now) IN
            /\ r.err # "Ok"
            /\ r.proposal = proposals[k]
            /\ r.err = "AlreadyApproved" <=>
                  /\ proposals[k].status = "Pending"
                  /\ proposals[k].expiration > now
                  /\ Contains(wallet_config.signers, S)

\* a Pending, unexpired proposal that a current signer has approved
C5_Witness ==
    \E k \in Live :
        /\ proposals[k].status = "Pending"
        /\ proposals[k].expiration > now
        /\ \E i \in 1 .. Len(proposals[k].approvals) :
              Contains(wallet.signers, proposals[k].approvals[i])

\* C6 as stated: after the expiration approve_proposal and execute_proposal
\* fail with ProposalExpired whatever the status and the approvals.
C6_Original ==
    \A k \in Live :
        now > proposals[k].expiration =>
            /\ \A approver \in Keys :
                LET r == approve_proposal_ix(wallet, proposals[k], approver, now) IN
                r.err = "ProposalExpired" /\ r.proposal = proposals[k]
            /\ LET r == execute_proposal_ix(wallet, proposals[k], now) IN
                r.err = "ProposalExpired" /\ r.proposal = proposals[k]

\* C6 (amended): after the expiration, approve_proposal on a Pending proposal
\* and execute_proposal on an Approved proposal fail with ProposalExpired
\* whatever the approvals; on a proposal of any other status the call fails
\* too, on the status check that comes first; the proposal is unchanged,
\* whichever wallet_config account the call is given.
C6_ExpiredIsRejected ==
    \A k \in Live, wallet_config \in WalletConfigs :
        now > proposals[k].expiration =>
            /\ \A approver \in Keys :
                LET r == approve_proposal_ix(wallet_config, proposals[k], approver, now) IN
                /\ r.err # "Ok"
                /\ r.proposal = proposals[k]
                /\ r.err = "ProposalExpired" <=> proposals[k].status = "Pending"
            /\ LET r == execute_proposal_ix(wallet_config, proposals[k], now) IN
                /\ r.err # "Ok"
                /\ r.proposal = proposals[k]
                /\ r.err = "ProposalExpired" <=> proposals[k].status = "Approved"

\* an Approved proposal, with approvals recorded, whose expiration has passed
C6_Witness ==
    \E k \in Live :
        /\ now > proposals[k].expiration
        /\ proposals[k].status = "Approved"
        /\ Len(proposals[k].approvals) >= 2

\* C7: execute_proposal on a proposal that is not Approved fails with
\* ProposalNotApproved and changes neither status nor executed_at.
C7_NotApprovedError ==
    \A k \in Live :
        proposals[k].status # "Approved" =>
            LET r == execute_proposal_ix(wallet, proposals[k], now) IN
            /\ r.err = "ProposalNotApproved"
            /\ r.proposal.status = proposals[k].status
            /\ r.proposal.executed_at = proposals[k].executed_at

\* C8 as stated: update_signers by a signer that is not the authority fails
\* with NotAuthorized for every new_signers and new_threshold.
C8_Original ==
    wallet.initialized =>
        \A caller \in Range(wallet.signers) \ {wallet.authority} :
            \A new_signers \in SignerLists, new_threshold \in Thresholds :
                LET r == update_signers_ix(wallet, caller, new_signers, new_threshold) IN
                /\ r.err = "NotAuthorized"
                /\ r.wallet.signers = wallet.signers
                /\ r.wallet.threshold = wallet.threshold

\* C8 (amended): update_signers by a signer that is not the authority always
\* fails and leaves signers and threshold unchanged; the error is NotAuthorized
\* when 1 <= new_threshold <= |new_signers| and InvalidThreshold otherwise.
C8_SignerIsNotAuthority ==
    wallet.initialized =>
        \A caller \in Range(wallet.signers) \ {wallet.authority} :
            \A new_signers \in SignerLists, new_threshold \in Thresholds :
                LET r == update_signers_ix(wallet, caller, new_signers, new_threshold) IN
                /\ r.err = IF ArgsInvalid(new_signers, new_threshold)
                           THEN "InvalidThreshold" ELSE "NotAuthorized"
                /\ r.wallet.signers = wallet.signers
                /\ r.wallet.threshold = wallet.threshold

\* a wallet, already updated once, with a signer that is not the authority
C8_Witness ==
    /\ wallet.initialized
    /\ wallet.signers # SignerAddresses(wallet.members)
    /\ \E caller \in Range(wallet.signers) : caller # wallet.authority

\* C9: initialize_wallet for an authority that has no wallet yet succeeds iff
\* 1 <= threshold <= |signers|,
\* proposal_timeout > 0 and spending_limit > 0; it fails with InvalidThreshold
\* for a threshold violation, else InvalidTimeout for proposal_timeout <= 0,
\* else InvalidSpendingLimit for spending_limit = 0, and then creates nothing;
\* spending_period and repeated signers play no part.
C9_CreateIff ==
    /\ ~wallet.initialized =>
        \A signers \in SignerLists, threshold \in Thresholds, proposal_timeout \in Timeouts,
           spending_limit \in Limits, spending_period \in Periods :
            LET r == initialize_wallet_ix(wallet, Authority, signers, threshold,
                         proposal_timeout, spending_limit, spending_period, now)
                okThreshold == 1 <= threshold /\ threshold <= Len(signers)
            IN
            /\ r.err = "Ok" <=> (okThreshold /\ proposal_timeout > 0 /\ spending_limit > 0)
            /\ r.wallet.initialized <=> r.err = "Ok"
            /\ r.err # "Ok" => r.wallet = wallet
            /\ r.err = (IF ~okThreshold THEN "InvalidThreshold"
                        ELSE IF proposal_timeout <= 0 THEN "InvalidTimeout"
                        ELSE IF spending_limit = 0 THEN "InvalidSpendingLimit"
                        ELSE "Ok")
    /\ wallet.initialized =>
        /\ 1 <= wallet.threshold /\ wallet.threshold <= Len(wallet.signers)
        /\ wallet.proposal_timeout > 0

\* a wallet as created (no instruction has touched it) from a signer vector
\* that repeats a key, with a spending_period that is not positive
C9_Witness ==
    /\ wallet.initialized
    /\ wallet.signers = SignerAddresses(wallet.members)
    /\ Len(wallet.signers) = 2 /\ wallet.signers[1] = wallet.signers[2]
    /\ wallet.spending_period <= 0
    /\ wallet.spending_limit > 0
    /\ now = 0

\* C10: every instruction that returns an error returns one of the listed
\* error kinds and leaves the wallet and the proposal unchanged.
C10_Errors == MultisigError \cup {"Ok"}

C10_ListedErrorsOnly ==
    wallet.initialized =>
        /\ \A k \in Live, caller \in Keys :
            /\ LET r == approve_proposal_ix(wallet, proposals[k], caller, now) IN
                r.err \in C10_Errors /\ (r.err # "Ok" => r.proposal = proposals[k])
            /\ LET r == execute_proposal_ix(wallet, proposals[k], now) IN
                r.err \in C10_Errors /\ (r.err # "Ok" => r.proposal = proposals[k])
        /\ \A caller \in Keys :
            /\ \A category \in Categories, expiration \in Expirations :
                LET r == add_proposal_ix(wallet, proposals[caller], caller, category,
                                         expiration, now) IN
                r.err \in C10_Errors
                    /\ (r.err # "Ok" => r.wallet = wallet /\ r.proposal = proposals[caller])
            /\ \A new_signers \in SignerLists, new_threshold \in Thresholds :
                LET r == update_signers_ix(wallet, caller, new_signers, new_threshold) IN
                r.err \in C10_Errors /\ (r.err # "Ok" => r.wallet = wallet)
            /\ \A new_limit \in Limits, new_period \in Periods :
                LET r == set_spending_limits_ix(wallet, caller, new_limit, new_period, now) IN
                r.err \in C10_Errors /\ (r.err # "Ok" => r.wallet = wallet)
            /\ \A delegate \in Keys :
                LET r == delegate_vote_ix(wallet, caller, delegate) IN
                r.err \in C10_Errors /\ (r.err # "Ok" => r.wallet = wallet)
            /\ LET r == emergency_override_ix(wallet, caller) IN
                r.err \in C10_Errors /\ (r.err # "Ok" => r.wallet = wallet)

\* the identities that some member record names as its delegate
C11_Delegates(w) ==
    {w.members[i].delegate : i \in 1 .. Len(w.members)} \ {NoKey}

\* C11: after a successful delegate_vote(X) by signer A a member record of A
\* has delegate = X; approve_proposal by a delegate X that is not in the
\* wallet's current signers fails with NotAuthorized on a proposal that is open
\* for approval; and every approval that a step appends to a proposal is by an
\* identity in the current signers of the proposal's wallet, whatever
\* delegations exist.
C11_OnlyCurrentSigners ==
    /\ [](wallet.initialized =>
            /\ \A delegator \in Keys, delegate \in Keys :
                LET r == delegate_vote_ix(wallet, delegator, delegate) IN
                r.err = "Ok" =>
                    \E i \in 1 .. Len(r.wallet.members) :
                        /\ r.wallet.members[i].address = delegator
                        /\ r.wallet.members[i].delegate = delegate
            /\ \A X \in C11_Delegates(wallet) :
                ~Contains(wallet.signers, X) =>
                    \A k \in Live :
                        proposals[k].status = "Pending" /\ proposals[k].expiration > now =>
                            approve_proposal_ix(wallet, proposals[k], X, now).err
                                = "NotAuthorized")
    /\ [][\A k \in Live :
            Len(proposals'[k].approvals) = Len(proposals[k].approvals) + 1
                => Contains(wallet.signers,
                            proposals'[k].approvals[Len(proposals'[k].approvals)])]_vars

\* C12: once the wallet exists spending_limit > 0 and proposal_timeout > 0 in
\* every state, also in the states set_spending_limits leaves.
C12_LimitsPositive ==
    wallet.initialized =>
        /\ wallet.spending_limit > 0
        /\ wallet.proposal_timeout > 0

\* C13: proposal_count starts at 0; every step either leaves proposal_count and
\* every proposal's id as they are, or creates exactly one proposal whose id is
\* the proposal_count before the step and adds exactly 1 to proposal_count; an
\* add_proposal that fails changes nothing; so the ids of the proposals are
\* pairwise distinct and are exactly 0 .. proposal_count - 1.
C13_CountIsSequence ==
    /\ [](/\ ~wallet.initialized => wallet.proposal_count = 0 /\ Live = {}
          /\ Cardinality(Live) = wallet.proposal_count
          /\ {proposals[k].id : k \in Live} = 0 .. wallet.proposal_count - 1
          /\ wallet.initialized =>
                \A proposer \in Keys, category \in Categories,
                   expiration \in Expirations :
                    LET r == add_proposal_ix(wallet, proposals[proposer], proposer,
                                             category, expiration, now) IN
                    r.err # "Ok" => r.wallet = wallet /\ r.proposal = proposals[proposer])
    /\ [][/\ (~wallet.initialized /\ wallet'.initialized) => wallet'.proposal_count = 0
          /\ \A k \in Live : k \in Live' /\ proposals'[k].id = proposals[k].id
          /\ \/ wallet'.proposal_count = wallet.proposal_count /\ Live' = Live
             \/ /\ wallet'.proposal_count = wallet.proposal_count + 1
                /\ \E k \in Keys \ Live :
                      /\ Live' = Live \cup {k}
                      /\ proposals'[k].id = wallet.proposal_count]_vars

\* two proposals, created one after the other, at a time when an add_proposal
\* with expiration 1 fails
C13_Witness ==
    /\ Cardinality(Live) = 2
    /\ wallet.proposal_count = 2
    /\ now >= 1

\* C14 as stated: on a wallet with threshold 1, execute_proposal succeeds on an
\* Emergency proposal as add_proposal left it (Pending, approvals empty, not
\* expired).
C14_Original ==
    \A k \in Live :
        (/\ wallet.threshold = 1
         /\ proposals[k].category = "Emergency"
         /\ proposals[k].approvals = <<>>
         /\ proposals[k].expiration > now)
        => execute_proposal_ix(wallet, proposals[k], now).err = "Ok"

\* C14 (amended): with threshold 1 an Emergency proposal requires 0 approvals,
\* but the requirement is only evaluated inside approve_proposal: a proposal
\* with empty approvals is Pending and execute_proposal fails on it and leaves
\* it unchanged, whichever wallet_config account the call is given; on such an
\* Emergency proposal, while it is not expired, the first approve_proposal by any current signer, given the proposal's wallet
\* as wallet_config, makes it Approved, and only then can execute_proposal
\* succeed.
C14_NotSelfExecuting ==
    \A k \in Live :
        /\ proposals[k].approvals = <<>> =>
            /\ proposals[k].status = "Pending"
            /\ \A wallet_config \in WalletConfigs :
                LET r == execute_proposal_ix(wallet_config, proposals[k], now) IN
                r.err # "Ok" /\ r.proposal = proposals[k]
        /\ (/\ wallet.threshold = 1
            /\ proposals[k].category = "Emergency"
            /\ proposals[k].approvals = <<>>
            /\ proposals[k].expiration > now)
           => \A approver \in Range(wallet.signers) :
                LET r == approve_proposal_ix(wallet, proposals[k], approver, now) IN
                /\ r.err = "Ok"
                /\ r.proposal.status = "Approved"
                /\ r.proposal.approvals = <<approver>>
                /\ execute_proposal_ix(wallet, r.proposal, now).err = "Ok"

\* an Emergency proposal just added to a wallet with threshold 1
C14_Witness ==
    /\ wallet.threshold = 1
    /\ \E k \in Live :
        /\ proposals[k].category = "Emergency"
        /\ proposals[k].approvals = <<>>
        /\ proposals[k].expiration > now

\* C15: add_proposal succeeds only for a proposer that is in the wallet's
\* current signers: every proposal account that a step creates has a proposer
\* that is a signer in the state the step starts from.
C15_ProposerIsSigner ==
    [][\A k \in Keys :
        (~proposals[k].exists /\ proposals'[k].exists)
            => Contains(wallet.signers, proposals'[k].proposer)]_vars

C16_HasEntry(members, k) == \E i \in 1 .. Len(members) : members[i].address = k

\* C16: initialize_wallet creates one member per signer, in signer order and
\* without delegate; afterwards no step changes the length or the addresses of
\* members, and a step that changes signers leaves members unchanged.
\* delegate_vote by a current signer fails with MemberNotFound exactly when the
\* signer has no entry in members, which cannot happen while signers is the
\* vector the members were created from; with an entry, the call succeeds and
\* changes only the delegate of one entry of that signer.
C16_MembersFrozen ==
    /\ [](wallet.initialized =>
            \A delegator \in Range(wallet.signers), delegate \in Keys :
                LET r == delegate_vote_ix(wallet, delegator, delegate) IN
                /\ r.err = "MemberNotFound" <=> ~C16_HasEntry(wallet.members, delegator)
                /\ r.err = "MemberNotFound" => r.wallet = wallet
                /\ wallet.signers = SignerAddresses(wallet.members)
                      => r.err # "MemberNotFound"
                /\ C16_HasEntry(wallet.members, delegator) =>
                    /\ r.err = "Ok"
                    /\ [r.wallet EXCEPT !.members = wallet.members] = wallet
                    /\ Len(r.wallet.members) = Len(wallet.members)
                    /\ \E i \in 1 .. Len(wallet.members) :
                        /\ wallet.members[i].address = delegator
                        /\ r.wallet.members[i].address = delegator
                        /\ r.wallet.members[i].delegate = delegate
                        /\ r.wallet.members[i].is_active = wallet.members[i].is_active
                        /\ \A j \in 1 .. Len(wallet.members) :
                              j # i => r.wallet.members[j] = wallet.members[j])
    /\ [][/\ (~wallet.initialized /\ wallet'.initialized) =>
                /\ SignerAddresses(wallet'.members) = wallet'.signers
                /\ \A i \in 1 .. Len(wallet'.members) : wallet'.members[i].delegate = NoKey
          /\ wallet.initialized =>
                /\ SignerAddresses(wallet'.members) = SignerAddresses(wallet.members)
                /\ wallet'.signers # wallet.signers => wallet'.members = wallet.members]_vars

\* after an update_signers: a current signer without an entry in members, next
\* to a member whose delegate was set
C16_Witness ==
    /\ wallet.initialized
    /\ \E k \in Range(wallet.signers) : ~C16_HasEntry(wallet.members, k)
    /\ \E i \in 1 .. Len(wallet.members) : wallet.members[i].delegate # NoKey

\* C17: every proposal's status is Pending, Approved or Executed and its
\* rejections list is empty, in every state; once the expiration time of a
\* proposal has been reached (now >= expiration) no step changes its status,
\* approvals or executed_at, so it stays Pending or Approved as it was.
C17_NeverRejectedNorExpired ==
    /\ [](\A k \in Live :
            /\ proposals[k].status \in {"Pending", "Approved", "Executed"}
            /\ proposals[k].rejections = <<>>)
    /\ [][\A k \in Live :
            now >= proposals[k].expiration =>
                /\ proposals'[k].status = proposals[k].status
                /\ proposals'[k].approvals = proposals[k].approvals
                /\ proposals'[k].executed_at = proposals[k].executed_at]_vars

\* a proposal left behind by its expiration: Approved, never executed, at the
\* end of time
C17_Witness ==
    /\ now = MaxTime
    /\ \E k \in Live :
        /\ proposals[k].expiration < now
        /\ proposals[k].status = "Approved"
        /\ proposals[k].executed_at = NoTime
        /\ Len(proposals[k].approvals) >= 1

\* the approvals of p that count under wallet w: distinct identities that are
\* current signers
C18_ValidApprovals(w, p) == {a \in Range(p.approvals) : Contains(w.signers, a)}

\* C18: whenever execute_proposal succeeds, the approvals of the proposal
\* contain at least required(category, threshold) distinct identities that are
\* current signers, with the wallet's threshold at that moment.
C18_ExecutedIsAuthorized ==
    [][\A k \in Live :
        (proposals[k].status = "Approved" /\ proposals'[k].status = "Executed")
            => Cardinality(C18_ValidApprovals(wallet, proposals[k]))
                  >= C2_Required(proposals[k].category, wallet.threshold)]_vars

\* the proposal after each identity of callers, in turn, has called
\* approve_proposal at time t under wallet w
RECURSIVE C19_ApproveByAll(_, _, _, _)
C19_ApproveByAll(w, p, callers, t) ==
    IF callers = <<>> THEN p
    ELSE C19_ApproveByAll(w, approve_proposal_ix(w, p, Head(callers), t).proposal,
                          Tail(callers), t)

\* C19: under every wallet configuration with pairwise distinct signers and for
\* every category, a Pending proposal that is not expired and that no current
\* signer has approved yet is Approved once every current signer has called
\* approve_proposal on it, the configuration and the time staying as they are.
C19_AllSignersApprove ==
    wallet.initialized =>
        \A k \in Live :
            (/\ proposals[k].status = "Pending"
             /\ proposals[k].expiration > now
             /\ Cardinality(Range(wallet.signers)) = Len(wallet.signers)
             /\ \A a \in Range(wallet.signers) : ~Contains(proposals[k].approvals, a))
            => C19_ApproveByAll(wallet, proposals[k], wallet.signers, now).status = "Approved"

\* C20: update_signers succeeds only while the authority is in signers; in a
\* state where the authority is not in signers every update_signers call fails
\* with NotAuthorized or InvalidThreshold and changes nothing, and no step
\* changes signers or threshold, so the authority stays outside for ever.
C20_LockedOut ==
    /\ [](wallet.initialized =>
            \A approver \in Keys, new_signers \in SignerLists, new_threshold \in Thresholds :
                LET r == update_signers_ix(wallet, approver, new_signers, new_threshold) IN
                /\ r.err = "Ok" => Contains(wallet.signers, wallet.authority)
                /\ ~Contains(wallet.signers, wallet.authority) =>
                    /\ r.err \in {"NotAuthorized", "InvalidThreshold"}
                    /\ r.wallet = wallet)
    /\ [][(wallet.initialized /\ ~Contains(wallet.signers, wallet.authority)) =>
            /\ wallet'.signers = wallet.signers
            /\ wallet'.threshold = wallet.threshold
            /\ wallet'.authority = wallet.authority]_vars

\* the authority was dropped from signers by its own update_signers
C20_Witness ==
    /\ wallet.initialized
    /\ ~Contains(wallet.signers, wallet.authority)
    /\ Contains(SignerAddresses(wallet.members), wallet.authority)

====
